---- MODULE Spec2Model ----
\* LargeELMRegressor (skelm/large_elm.py): fit over a list of file shards and
\* predict, as a state machine over the attributes of one model instance and
\* the locals of the fit call in progress.
EXTENDS Integers, Sequences, FiniteSets, TLC

\* ---------------------------------------------------------------- bounds
MaxShards == 3
MaxCalls == 2
NNeurons == 2

\* The files on disk: row count, feature count, output count, and the sum of
\* the first target column (which is entry [0,0] of H^T Y, since the first
\* column of H is the bias column of ones).
Files ==
  { [rows |-> 2,     nf |-> 1, no |-> 1, ysum |-> 1],
    [rows |-> 5000,  nf |-> 1, no |-> 1, ysum |-> 3],
    [rows |-> 10000, nf |-> 2, no |-> 1, ysum |-> 7],
    [rows |-> 3,     nf |-> 1, no |-> 2, ysum |-> 5] }

FileLists == UNION { [1..k -> Files] : k \in 1..MaxShards }

\* batch_size and sync_every: 0 stands for None.
BatchSizes == {0, 2}
SyncChoices == {0, 1, 2}

VARIABLES
  \* constructor parameters
  batch_size, include_original_features,
  \* attributes of the instance; 0 / FALSE / NoB stand for "no attribute"
  n_features_, n_outputs_, hidden_layers_, bsize_, B, is_fitted_,
  \* the call in progress: position ("idle", "loop", "raised", "returned",
  \* "predicted"), the arguments X and sync_every, the loop index i, the
  \* accumulators HH and HY, the padding, the order of the fold / wait /
  \* persist / solve steps taken (log), whether the graph holds a product
  \* that fails only when computed (deferred), and the exception raised (err)
  pc, X, sync_every, i, HH, HY, padding, log, deferred, err,
  \* history: the attributes at entry of the call, the number of fit calls,
  \* whether a fit call has returned, and the outcome of predict
  pre, nfit, nCompleted, predictOut

vars == << batch_size, include_original_features,
           n_features_, n_outputs_, hidden_layers_, bsize_, B, is_fitted_,
           pc, X, sync_every, i, HH, HY, padding, log, deferred, err,
           pre, nfit, nCompleted, predictOut >>

config == << batch_size, include_original_features >>

\* ---------------------------------------------------------------- values
\* A lazy matrix, by its shape and its [0,0] entry; set = FALSE is None.
None == [set |-> FALSE, r |-> 0, c |-> 0, v |-> 0]

Max(a, b) == IF a >= b THEN a ELSE b

\* numpy/dask broadcasting of one dimension.
DimOk(a, b) == a = b \/ a = 1 \/ b = 1

Broadcastable(A, C) == DimOk(A.r, C.r) /\ DimOk(A.c, C.c)

\* Width of the design matrix of a shard with nf features.
DesignWidth(nf) ==
  1 + (IF include_original_features THEN nf ELSE 0) + NNeurons

\* H^T H and H^T Y of one shard.
ContribHH(f) ==
  [set |-> TRUE, r |-> DesignWidth(f.nf), c |-> DesignWidth(f.nf), v |-> f.rows]

ContribHY(f) ==
  [set |-> TRUE, r |-> DesignWidth(f.nf), c |-> f.no, v |-> f.ysum]

AccumulateOverwrite(A, C) == C

\* "if HH is None: HH = dot(...) else: HH += dot(...)"
Accumulate(A, C) ==
  IF ~A.set THEN C
  ELSE [set |-> TRUE, r |-> Max(A.r, C.r), c |-> Max(A.c, C.c), v |-> A.v + C.v]

FeatureMismatchNever(self_nf, nf) == FALSE

\* hasattr(self, 'n_features_') and self.n_features_ != n_features
FeatureMismatch(self_nf, nf) == self_nf # 0 /\ self_nf # nf

OutputMismatchNever(self_no, no) == FALSE

\* hasattr(self, 'n_outputs_') and self.n_outputs_ != n_outputs
OutputMismatch(self_no, no) == self_no # 0 /\ self_no # no

Min(a, b) == IF a <= b THEN a ELSE b

DefaultBsizeCapped(n_samples) ==
  IF n_samples < 10 * 1000 THEN Min(n_samples, 2000) ELSE 2000

\* n_samples if n_samples < 10 * 1000 else 2000
DefaultBsize(n_samples) ==
  IF n_samples < 10 * 1000 THEN n_samples ELSE 2000

SetBsizeOnce(bs, n_samples) ==
  IF bsize_ # 0 THEN bsize_
  ELSE IF bs # 0 THEN bs ELSE DefaultBsize(n_samples)

\* self.bsize_ = self.batch_size; if None, the default
SetBsize(bs, n_samples) ==
  IF bs # 0 THEN bs ELSE DefaultBsize(n_samples)

PaddingAlways(n_features, bsize) == (bsize - (n_features % bsize)) % bsize

\* padding of the accumulators before the solve
Padding(n_features, bsize) ==
  IF n_features > bsize /\ n_features % bsize > 0
  THEN bsize - (n_features % bsize)
  ELSE 0

WaitAtShardAlsoFirst(first, se, idx) == se # 0 /\ idx % se = 0

\* the wait inside the else branch of the fold
WaitAtShard(first, se, idx) == ~first /\ se # 0 /\ idx % se = 0

PersistAtShardSkipFirst(se, idx) == se # 0 /\ idx % se = 0 /\ idx > 0

\* the persist at the end of the loop body
PersistAtShard(se, idx) == se # 0 /\ idx % se = 0

CheckIsFittedAlways(fitted) == TRUE

\* check_is_fitted(self, 'is_fitted_')
CheckIsFitted(fitted) == fitted

\* self.B: the lazy result of the solve, by its shape and the fit call that
\* built it; set = FALSE is "no attribute B".
NoB == [set |-> FALSE, r |-> 0, c |-> 0, call |-> 0]

\* da.linalg.solve(HH, HY) cut back to the first n rows
Solve(hh, hy, n) == [set |-> TRUE, r |-> n, c |-> hy.c, call |-> nfit]

\* da.block([[HH, P01], [P10, P11]]) and da.block([[HY], [P1]])
PadHH(A, p) == [A EXCEPT !.r = A.r + p, !.c = A.c + p]

PadHY(A, p) == [A EXCEPT !.r = A.r + p]

Snapshot ==
  [B |-> B, bsize_ |-> bsize_, is_fitted_ |-> is_fitted_,
   n_features_ |-> n_features_, n_outputs_ |-> n_outputs_]

\* ---------------------------------------------------------------- Init
Init ==
  /\ batch_size \in BatchSizes
  /\ include_original_features \in BOOLEAN
  /\ n_features_ = 0
  /\ n_outputs_ = 0
  /\ hidden_layers_ = FALSE
  /\ bsize_ = 0
  /\ B = NoB
  /\ is_fitted_ = FALSE
  /\ pc = "idle"
  /\ X = << >>
  /\ sync_every = 0
  /\ i = 0
  /\ HH = None
  /\ HY = None
  /\ padding = 0
  /\ log = << >>
  /\ deferred = FALSE
  /\ err = "none"
  /\ pre = Snapshot
  /\ nfit = 0
  /\ nCompleted = FALSE
  /\ predictOut = "none"

\* ---------------------------------------------------------------- fit
\* The locals of a new call.
NewCall(Xs, se) ==
  /\ X' = Xs
  /\ sync_every' = se
  /\ i' = 0
  /\ HH' = None
  /\ HY' = None
  /\ padding' = 0
  /\ log' = << >>
  /\ deferred' = FALSE
  /\ pre' = Snapshot
  /\ nfit' = nfit + 1
  /\ predictOut' = "none"

\* fit, from the argument checks to the start of the loop.
FitStart(Xs, ylen, se) ==
  /\ pc = "idle"
  /\ nfit < MaxCalls
  /\ NewCall(Xs, se)
  /\ UNCHANGED << config, B, is_fitted_, nCompleted >>
  /\ IF Len(Xs) # ylen
     THEN /\ err' = "validation"
          /\ pc' = "raised"
          /\ UNCHANGED << n_features_, n_outputs_, hidden_layers_, bsize_ >>
     ELSE IF \/ FeatureMismatch(n_features_, Xs[1].nf)
             \/ OutputMismatch(n_outputs_, Xs[1].no)
     THEN /\ err' = "shape"
          /\ pc' = "raised"
          /\ UNCHANGED << n_features_, n_outputs_, hidden_layers_, bsize_ >>
     ELSE /\ bsize_' = SetBsize(batch_size, Xs[1].rows)
          /\ IF ~hidden_layers_
             THEN /\ n_features_' = Xs[1].nf
                  /\ n_outputs_' = Xs[1].no
                  /\ hidden_layers_' = TRUE
             ELSE UNCHANGED << n_features_, n_outputs_, hidden_layers_ >>
          /\ err' = "none"
          /\ pc' = "loop"

\* fit raising before the loop: the first file cannot be read ("io"), or the
\* cluster or the hidden layers cannot be set up ("init").
FitStartFail(Xs, se, kind) ==
  /\ pc = "idle"
  /\ nfit < MaxCalls
  /\ NewCall(Xs, se)
  /\ UNCHANGED << config, B, is_fitted_, nCompleted, hidden_layers_ >>
  /\ pc' = "raised"
  /\ err' = kind
  /\ IF kind = "io"
     THEN UNCHANGED << n_features_, n_outputs_, bsize_ >>
     ELSE /\ ~hidden_layers_
          /\ ~FeatureMismatch(n_features_, Xs[1].nf)
          /\ ~OutputMismatch(n_outputs_, Xs[1].no)
          /\ bsize_' = SetBsize(batch_size, Xs[1].rows)
          /\ n_features_' = Xs[1].nf
          /\ n_outputs_' = Xs[1].no

\* The product with the projection matrix W, which has n_features_ columns,
\* is defined only for a shard of that many columns.
ProjectionFits(f) == f.nf = n_features_

\* The fold of shard f raises while the graph is built.
FoldRaises(f) ==
  \/ HH.set /\ ~Broadcastable(HH, ContribHH(f))
  \/ HY.set /\ ~Broadcastable(HY, ContribHY(f))

\* One iteration of the loop over the files.
FitShard ==
  /\ pc = "loop"
  /\ i < Len(X)
  /\ LET f == X[i + 1]
         first == ~HH.set
         w == IF WaitAtShard(first, sync_every, i) THEN << <<"wait", i>> >> ELSE << >>
         p == IF PersistAtShard(sync_every, i) THEN << <<"persist", i>> >> ELSE << >>
     IN /\ ~FoldRaises(f)
        /\ HH' = Accumulate(HH, ContribHH(f))
        /\ HY' = Accumulate(HY, ContribHY(f))
        /\ deferred' = (deferred \/ ~ProjectionFits(f))
        /\ log' = log \o << <<"fold", i>> >> \o w \o p
  /\ i' = i + 1
  /\ UNCHANGED << config, n_features_, n_outputs_, hidden_layers_, bsize_, B,
                  is_fitted_, pc, X, sync_every, padding, err, pre, nfit,
                  nCompleted, predictOut >>

\* One iteration raising: the file cannot be read ("io"), or the shapes do
\* not fit while the graph is built ("lib").
FitShardFail(kind) ==
  /\ pc = "loop"
  /\ i < Len(X)
  /\ \/ kind = "io"
     \/ kind = "lib" /\ (FoldRaises(X[i + 1]) \/ ~ProjectionFits(X[i + 1]))
  /\ pc' = "raised"
  /\ err' = kind
  /\ UNCHANGED << config, n_features_, n_outputs_, hidden_layers_, bsize_, B,
                  is_fitted_, X, sync_every, i, HH, HY, padding, log, deferred,
                  pre, nfit, nCompleted, predictOut >>

FinalWait == IF sync_every # 0 THEN << <<"wait", Len(X)>> >> ELSE << >>

\* After the loop: wait, pad, solve, store B, compute, mark fitted.
FitFinish ==
  /\ pc = "loop"
  /\ i = Len(X)
  /\ ~deferred
  /\ LET p == Padding(HH.r, bsize_)
     IN /\ padding' = p
        /\ HH' = PadHH(HH, p)
        /\ HY' = PadHY(HY, p)
        /\ B' = Solve(HH, HY, HH.r)
  /\ log' = log \o FinalWait \o << <<"solve", Len(X)>> >>
  /\ is_fitted_' = TRUE
  /\ nCompleted' = TRUE
  /\ pc' = "returned"
  /\ err' = "ok"
  /\ UNCHANGED << config, n_features_, n_outputs_, hidden_layers_, bsize_,
                  X, sync_every, i, deferred, pre, nfit, predictOut >>

\* After the loop, raising: in the solve ("solve", B not yet stored) or in
\* HH.compute() ("compute", B already stored).
FitFinishFail(kind) ==
  /\ pc = "loop"
  /\ i = Len(X)
  /\ kind = "solve" => ~deferred
  /\ LET p == Padding(HH.r, bsize_)
     IN /\ padding' = p
        /\ HH' = PadHH(HH, p)
        /\ HY' = PadHY(HY, p)
        /\ B' = IF kind = "compute" THEN Solve(HH, HY, HH.r) ELSE B
  /\ log' = log \o FinalWait
              \o (IF kind = "compute" THEN << <<"solve", Len(X)>> >> ELSE << >>)
  /\ pc' = "raised"
  /\ err' = kind
  /\ UNCHANGED << config, n_features_, n_outputs_, hidden_layers_, bsize_,
                  is_fitted_, X, sync_every, i, deferred, pre, nfit,
                  nCompleted, predictOut >>

\* ---------------------------------------------------------------- predict
Predict(mode) ==
  /\ pc = "idle"
  /\ predictOut' = IF CheckIsFitted(is_fitted_) THEN mode ELSE "NotFitted"
  /\ pc' = "predicted"
  /\ UNCHANGED << config, n_features_, n_outputs_, hidden_layers_, bsize_, B,
                  is_fitted_, X, sync_every, i, HH, HY, padding, log,
                  deferred, err, pre, nfit, nCompleted >>

\* ---------------------------------------------------------------- return
\* The call returns or its exception leaves fit: the locals are gone.
Return ==
  /\ pc \in {"raised", "returned", "predicted"}
  /\ pc' = "idle"
  /\ X' = << >>
  /\ sync_every' = 0
  /\ i' = 0
  /\ HH' = None
  /\ HY' = None
  /\ padding' = 0
  /\ log' = << >>
  /\ deferred' = FALSE
  /\ err' = "none"
  /\ pre' = Snapshot
  /\ predictOut' = "none"
  /\ UNCHANGED << config, n_features_, n_outputs_, hidden_layers_, bsize_, B,
                  is_fitted_, nfit, nCompleted >>

\* ---------------------------------------------------------------- Next
\* A call of fit that reaches the loop or raises in its own checks.
Fit ==
  /\ pc = "idle"
  /\ nfit < MaxCalls
  /\ \E Xs \in FileLists, se \in SyncChoices :
       \E ylen \in {Len(Xs), Len(Xs) + 1} : FitStart(Xs, ylen, se)

\* A call of fit that raises before the loop for a reason outside fit.
FitRaisesEarly ==
  /\ pc = "idle"
  /\ nfit < MaxCalls
  /\ \E Xs \in FileLists, se \in SyncChoices, kind \in {"io", "init"} :
       FitStartFail(Xs, se, kind)

Next ==
  \/ Fit
  \/ FitRaisesEarly
  \/ FitShard
  \/ \E kind \in {"io", "lib"} : FitShardFail(kind)
  \/ FitFinish
  \/ \E kind \in {"solve", "compute"} : FitFinishFail(kind)
  \/ \E mode \in {"files", "array"} : Predict(mode)
  \/ Return

Spec == Init /\ [][Next]_vars


\* ---------------------------------------------------------------- helpers of the properties
InFit == pc \in {"loop", "raised", "returned"}

\* The call got past the checks of the first file.
PastChecks ==
  \/ pc \in {"loop", "returned"}
  \/ pc = "raised" /\ err \in {"init", "lib", "solve", "compute"}
  \/ pc = "raised" /\ err = "io" /\ i > 0

RECURSIVE SumOver(_, _)
SumOver(S, field) ==
  IF S = {} THEN 0
  ELSE LET f == CHOOSE x \in S : TRUE
       IN (IF field = "rows" THEN f.rows ELSE f.ysum)
            * Cardinality({j \in 1..i : X[j] = f})
          + SumOver(S \ {f}, field)

OpsAt(j) ==
  LET keep(e) == e[2] = j /\ e[1] \in {"wait", "persist"}
      sel == SelectSeq(log, keep)
  IN [k \in 1..Len(sel) |-> sel[k][1]]

LastPersist(l) ==
  LET ks == {k \in 1..Len(l) : l[k][1] = "persist"}
  IN IF ks = {} THEN 0 ELSE CHOOSE k \in ks : \A m \in ks : m <= k

Pending(l) ==
  Cardinality({k \in (LastPersist(l) + 1)..Len(l) : l[k][1] = "fold"})

\* ---------------------------------------------------------------- C1
\* C1: a fit call that raises leaves the model either unfitted or with B,
\* bsize_ and is_fitted_ exactly as they were before the call.
C1_FailedFitKeepsState ==
  pc = "raised" =>
    \/ ~is_fitted_
    \/ /\ B = pre.B
       /\ bsize_ = pre.bsize_
       /\ is_fitted_ = pre.is_fitted_

\* ---------------------------------------------------------------- C2
\* C2 as stated: no shard whose feature or output count differs from the
\* recorded n_features_ / n_outputs_ is ever folded, whatever its index: fit
\* stops at that shard.
C2_EveryShardChecked ==
  \A j \in 1..Len(X) :
    (InFit /\ n_features_ # 0
        /\ (X[j].nf # n_features_ \/ X[j].no # n_outputs_))
      => i < j

\* C2 amended: when the first shard of a call differs in feature or output
\* count from the counts recorded before the call, fit (given valid lists and
\* a readable first file) raises the shape-mismatch error before it folds any
\* shard and before it touches bsize_; later shards are not compared.
C2_FirstShardChecked ==
  (InFit /\ err \notin {"validation", "io"}
      /\ \/ pre.n_features_ # 0 /\ pre.n_features_ # X[1].nf
         \/ pre.n_outputs_ # 0 /\ pre.n_outputs_ # X[1].no)
    => /\ pc = "raised"
       /\ err = "shape"
       /\ i = 0
       /\ log = << >>
       /\ ~HH.set
       /\ bsize_ = pre.bsize_

C2_Witness ==
  /\ pc = "raised"
  /\ err = "shape"
  /\ pre.n_outputs_ # 0
  /\ pre.n_outputs_ # X[1].no
  /\ pre.n_features_ = X[1].nf
  /\ Len(X) > 1

\* ---------------------------------------------------------------- C3
\* C3: a fit on a model that has recorded n_features_, with data of another
\* feature count, raises the shape-mismatch error and leaves n_features_ as
\* it was.
C3_SecondFitShapeGuard ==
  /\ (InFit /\ pre.n_features_ # 0) => n_features_ = pre.n_features_
  /\ (InFit /\ err \notin {"validation", "io"}
         /\ pre.n_features_ # 0 /\ X[1].nf # pre.n_features_)
       => (pc = "raised" /\ err = "shape")

C3_Witness ==
  /\ pc = "raised"
  /\ err = "shape"
  /\ pre.is_fitted_
  /\ X[1].nf # pre.n_features_
  /\ X[1].no = pre.n_outputs_
  /\ n_features_ = pre.n_features_

C5_DefaultCappedAt2000 ==
  (PastChecks /\ batch_size = 0) =>
    /\ bsize_ = (IF X[1].rows < 10000
                 THEN (IF X[1].rows < 2000 THEN X[1].rows ELSE 2000)
                 ELSE 2000)
    /\ bsize_ <= 2000

\* C5 amended: with batch_size None the batch size is the row count of shard
\* 0 when that is below 10000 and 2000 otherwise, so never above 9999.
C5_DefaultIsRowCount ==
  (PastChecks /\ batch_size = 0) =>
    /\ X[1].rows < 10000 => bsize_ = X[1].rows
    /\ X[1].rows >= 10000 => bsize_ = 2000
    /\ bsize_ <= 9999

C5_Witness ==
  /\ pc = "loop"
  /\ batch_size = 0
  /\ X[1].rows > 2000
  /\ X[1].rows < 10000
  /\ bsize_ = X[1].rows

\* ---------------------------------------------------------------- C6
\* C6 as stated: the padding is (b - d mod b) mod b for every d and b, and
\* the padded dimension is a multiple of b.
C6_PaddingToMultiple ==
  pc = "returned" =>
    LET d == HH.r - padding
    IN /\ padding = (bsize_ - (d % bsize_)) % bsize_
       /\ HH.r % bsize_ = 0

\* C6 amended: for d > b the padding is (b - d mod b) mod b, the smallest
\* p >= 0 with d + p a multiple of b; for d <= b the padding is 0, and the
\* dimension d handed to the solver is then a multiple of b only if d = b.
C6_PaddingAboveBatch ==
  pc = "returned" =>
    LET d == HH.r - padding
    IN /\ d > bsize_ =>
            /\ padding = (bsize_ - (d % bsize_)) % bsize_
            /\ HH.r % bsize_ = 0
            /\ \A q \in 0..(padding - 1) : (d + q) % bsize_ # 0
       /\ d <= bsize_ => (padding = 0 /\ HH.r = d)
       /\ HY.r = HH.r
       /\ HH.c = HH.r
       /\ B.r = d

C6_Witness ==
  /\ pc = "returned"
  /\ padding > 0
  /\ HH.r - padding > bsize_
  /\ HH.r % bsize_ = 0

\* ---------------------------------------------------------------- C7
\* C7 as stated: at every shard index j with j mod s = 0 the loop waits and
\* then persists, at no other index it does either, and with sync_every None
\* it never does either.
C7_WaitAndPersistAtEveryBoundary ==
  /\ \A j \in 0..(i - 1) :
       (InFit /\ sync_every # 0) =>
         OpsAt(j) = IF j % sync_every = 0 THEN <<"wait", "persist">> ELSE << >>
  /\ (InFit /\ sync_every = 0) =>
       \A k \in 1..Len(log) : log[k][1] \notin {"wait", "persist"}

\* C7 amended: as stated for every shard index j >= 1; at shard 0, where the
\* accumulators are created rather than added to, the loop only persists.
C7_WaitSkipsFirstShard ==
  /\ \A j \in 0..(i - 1) :
       (InFit /\ sync_every # 0) =>
         OpsAt(j) = IF j % sync_every # 0 THEN << >>
                    ELSE IF j = 0 THEN <<"persist">>
                    ELSE <<"wait", "persist">>
  /\ (InFit /\ sync_every = 0) =>
       \A k \in 1..Len(log) : log[k][1] \notin {"wait", "persist"}

C7_Witness ==
  /\ pc = "loop"
  /\ sync_every = 2
  /\ i = 3
  /\ OpsAt(0) = <<"persist">>
  /\ OpsAt(1) = << >>
  /\ OpsAt(2) = <<"wait", "persist">>

\* ---------------------------------------------------------------- C8
\* C8: in the loop of every fit call, after i shards the accumulators hold
\* the sum of the contributions of exactly those shards, each counted as
\* often as it occurs in the list and with nothing from an earlier call; the
\* sum depends on the shards only as a multiset, not on their order.
C8_AccumulatorsAreShardSums ==
  pc \in {"loop", "returned"} =>
    IF i = 0 THEN HH = None /\ HY = None
    ELSE /\ HH.set /\ HY.set
         /\ HH.v = SumOver(Files, "rows")
         /\ HY.v = SumOver(Files, "ysum")

C8_Witness ==
  /\ pc = "loop"
  /\ nfit = 2
  /\ pre.is_fitted_
  /\ sync_every = 2
  /\ i = 3
  /\ X[1] # X[2]
  /\ X[1] = X[3]
  /\ HH.v = 2 * X[1].rows + X[2].rows

C10_PendingBounded ==
  (InFit /\ sync_every # 0) =>
    /\ \A k \in 0..Len(log) : Pending(SubSeq(log, 1, k)) <= sync_every
    /\ \A k \in 1..Len(log) :
         log[k][1] = "solve" =>
           /\ k > 1
           /\ log[k - 1] = <<"wait", Len(X)>>
           /\ \A m \in 1..Len(log) : log[m][1] = "fold" => m < k - 1
    /\ pc = "returned" => log[Len(log)][1] = "solve"

C10_Witness ==
  /\ pc = "returned"
  /\ sync_every = 2
  /\ Len(X) = 3
  /\ \E k \in 1..Len(log) : Pending(SubSeq(log, 1, k)) = 2

====
